---- MODULE Spec2Model ----
(***************************************************************************)
(* A model of scrape_2up_api_only.py: the market normaliser                *)
(* (format_decimal_str, extract_markets_from_api), the fixture skeleton    *)
(* (build_item_skeleton_from_api, compute_match_id) and the windowed,      *)
(* paginated, deduplicating fetch loop (scrape_api_only).                  *)
(*                                                                         *)
(* Python values are records [t, v, s]: t is the Python type ("none",      *)
(* "int", "float", "str"), v the number and s the characters of a string   *)
(* (a sequence of one-character strings, so that lower(), replace(),       *)
(* "in" and float() are computed character by character).  A float is     *)
(* held in thousandths (1.95 is 1950): every numeral of the input sets has *)
(* at most three fractional digits, for which float() and "%.3f" are       *)
(* exact at that precision.  Timestamps are milliseconds counted from a    *)
(* small origin, not from 1970, to stay within TLC's integers.             *)
(***************************************************************************)
EXTENDS Integers, Sequences, FiniteSets, TLC

(***************************************************************************)
(* Python values                                                           *)
(***************************************************************************)
PyNone == [t |-> "none", v |-> 0, s |-> <<>>]
PyInt(n) == [t |-> "int", v |-> n, s |-> <<>>]
PyFloat(milli) == [t |-> "float", v |-> milli, s |-> <<>>]
PyStr(chars) == [t |-> "str", v |-> 0, s |-> chars]

\* bool(x): None, 0, 0.0 and "" are falsy
Truthy(x) ==
  CASE x.t = "none" -> FALSE
    [] x.t = "int" -> x.v # 0
    [] x.t = "float" -> x.v # 0
    [] OTHER -> x.s # <<>>

\* a or b
PyOr(a, b) == IF Truthy(a) THEN a ELSE b

\* the thousandths of an int or a float
Milli(x) == IF x.t = "int" THEN x.v * 1000 ELSE x.v

\* the member of a one-element set: {e} evaluates e once, for all its uses
The(S) == CHOOSE x \in S : TRUE

DigitChars == <<"0", "1", "2", "3", "4", "5", "6", "7", "8", "9">>

DigitValues == [c \in {DigitChars[i] : i \in 1..10} |->
                  (CHOOSE i \in 1..10 : DigitChars[i] = c) - 1]

IsDigit(c) == c \in DOMAIN DigitValues

DigitVal(c) == DigitValues[c]

RECURSIVE IntOfDigits(_)
IntOfDigits(ds) ==
  IF ds = <<>> THEN 0
  ELSE IntOfDigits(SubSeq(ds, 1, Len(ds) - 1)) * 10 + DigitVal(ds[Len(ds)])

RECURSIVE DigitsOf(_)
DigitsOf(n) ==
  IF n < 10 THEN <<DigitChars[n + 1]>>
  ELSE DigitsOf(n \div 10) \o <<DigitChars[(n % 10) + 1]>>

\* str.replace(old, new) for a one-character old
ReplaceChar(chars, old, new) ==
  [i \in 1..Len(chars) |-> IF chars[i] = old THEN new ELSE chars[i]]

UpperChars == <<"A", "B", "C", "D", "F", "H", "L", "M", "O", "S", "T", "U", "X">>
LowerChars == <<"a", "b", "c", "d", "f", "h", "l", "m", "o", "s", "t", "u", "x">>

LowerOf == [c \in {UpperChars[i] : i \in 1..Len(UpperChars)} |->
              LowerChars[CHOOSE i \in 1..Len(UpperChars) : UpperChars[i] = c]]

LowerChar(c) == IF c \in DOMAIN LowerOf THEN LowerOf[c] ELSE c

\* str.lower()
Lower(chars) == [i \in 1..Len(chars) |-> LowerChar(chars[i])]

\* sub in chars
Contains(chars, sub) ==
  \E i \in 1..(Len(chars) - Len(sub) + 1) : SubSeq(chars, i, i + Len(sub) - 1) = sub

\* str(x) of None, an int or a str
StrOf(x) ==
  CASE x.t = "str" -> x.s
    [] x.t = "int" -> IF x.v < 0 THEN <<"-">> \o DigitsOf(-x.v) ELSE DigitsOf(x.v)
    [] OTHER -> <<"N", "o", "n", "e">>

\* str(x or "")
StrOrEmpty(x) == IF Truthy(x) THEN StrOf(x) ELSE <<>>

(***************************************************************************)
(* float(str): an optional sign, digits, at most one ".", at least one     *)
(* digit.  ok = FALSE is the ValueError.                                   *)
(***************************************************************************)
FloatOfStr(chars) ==
  LET signed == chars # <<>> /\ chars[1] \in {"-", "+"}
      body == IF signed THEN Tail(chars) ELSE chars
      dots == {i \in 1..Len(body) : body[i] = "."}
      dot == IF dots = {} THEN Len(body) + 1 ELSE CHOOSE i \in dots : TRUE
      whole == SubSeq(body, 1, dot - 1)
      frac == SubSeq(body, dot + 1, Len(body))
      frac3 == SubSeq(frac \o <<"0", "0", "0">>, 1, 3)
      wellformed == /\ Cardinality(dots) <= 1
                    /\ \A i \in 1..Len(body) : i \in dots \/ IsDigit(body[i])
                    /\ Len(whole) + Len(frac) >= 1
      mag == IntOfDigits(whole) * 1000 + IntOfDigits(frac3)
  IN IF wellformed
     THEN [ok |-> TRUE, v |-> IF signed /\ chars[1] = "-" THEN -mag ELSE mag]
     ELSE [ok |-> FALSE, v |-> 0]

\* f"{val:.3f}"
Fixed3(milli) ==
  LET mag == IF milli < 0 THEN -milli ELSE milli
      frac == mag % 1000
  IN (IF milli < 0 THEN <<"-">> ELSE <<>>)
     \o DigitsOf(mag \div 1000) \o <<".">>
     \o <<DigitChars[(frac \div 100) + 1], DigitChars[((frac \div 10) % 10) + 1],
          DigitChars[(frac % 10) + 1]>>

\* format_decimal_str: None, or the value as a 3-decimal string
format_decimal_str(value) ==
  CASE value.t = "none" -> PyNone
    [] value.t = "str" ->
         LET f == FloatOfStr(ReplaceChar(value.s, ",", "."))
         IN IF f.ok THEN PyStr(Fixed3(f.v)) ELSE PyNone
    [] OTHER -> PyStr(Fixed3(Milli(value)))

(***************************************************************************)
(* extract_markets_from_api                                                *)
(*                                                                         *)
(* A raw market is [name, marketTypeId, selections]; a raw selection is    *)
(* [outcomeType, name, points, trueOdds, displayDecimal], displayDecimal   *)
(* being (s.get("displayOdds") or {}).get("Decimal").  A dict is the       *)
(* sequence of its values in insertion order.                              *)
(***************************************************************************)
S_ft_1x2 == <<"f", "t", " ", "1", "x", "2">>
S_ml0 == <<"m", "l", "0">>
S_double == <<"d", "o", "u", "b", "l", "e">>
S_chance == <<"c", "h", "a", "n", "c", "e">>
S_ft_ou == <<"f", "t", " ", "o", "/", "u">>
S_ou0 == <<"o", "u", "0">>
S_ft_asian_handicap ==
  <<"f", "t", " ", "a", "s", "i", "a", "n", " ", "h", "a", "n", "d", "i", "c", "a", "p">>
S_hc0 == <<"h", "c", "0">>
S_home == <<"h", "o", "m", "e">>
S_tie == <<"t", "i", "e">>
S_draw == <<"d", "r", "a", "w">>
S_away == <<"a", "w", "a", "y">>
S_over == <<"o", "v", "e", "r">>
S_under == <<"u", "n", "d", "e", "r">>
UnicodeMinus == "U+2212"

\* name = str(m.get("name") or "").lower()
MarketName(m) == Lower(StrOrEmpty(m.name))

\* mtid = str(m.get("marketTypeId") or "").lower()
MarketTypeId(m) == Lower(StrOrEmpty(m.marketTypeId))

\* the mutant of is_1x2_main: any name that contains "1x2" counts
is_1x2_main_shape(name, mtid) ==
  /\ Contains(name, <<"1", "x", "2">>) \/ mtid = S_ml0
  /\ ~Contains(name, S_double)
  /\ ~Contains(name, S_chance)

\* is_1x2_main after the test of lines 157-161
is_1x2_main(name, mtid) ==
  /\ name = S_ft_1x2 \/ mtid = S_ml0
  /\ ~Contains(name, S_double)
  /\ ~Contains(name, S_chance)

\* is_main_confirmed is set wherever is_1x2_main is, and nowhere else
is_main_confirmed(name, mtid) == is_1x2_main(name, mtid)

\* price = format_decimal_str(s.get("trueOdds") or (s.get("displayOdds") or {}).get("Decimal"))
SelectionPrice(s) == format_decimal_str(PyOr(s.trueOdds, s.displayDecimal))

\* the selection loop of the moneyline branch: [home_p, draw_p, away_p]
RECURSIVE MoneylineLegs(_)
MoneylineLegs(selections) ==
  IF selections = <<>> THEN [home_p |-> PyNone, draw_p |-> PyNone, away_p |-> PyNone]
  ELSE LET before == MoneylineLegs(SubSeq(selections, 1, Len(selections) - 1))
           s == selections[Len(selections)]
           outcome == Lower(StrOrEmpty(s.outcomeType))
           price == SelectionPrice(s)
       IN IF ~Truthy(price) THEN before
          ELSE IF outcome = S_home THEN [before EXCEPT !.home_p = price]
          ELSE IF outcome \in {S_tie, S_draw} THEN [before EXCEPT !.draw_p = price]
          ELSE IF outcome = S_away THEN [before EXCEPT !.away_p = price]
          ELSE before

HasBlock(markets, block) == \E i \in 1..Len(markets) : markets[i].name = block

WithoutBlock(markets, block) == SelectSeq(markets, LAMBDA b : b.name # block)

MLBlock(legs) ==
  [name |-> "ML", updatedAt |-> "now_iso",
   odds |-> <<[home |-> legs.home_p, draw |-> legs.draw_p, away |-> legs.away_p]>>]

\* the mutant of MoneylineBranch: a block is built from any two priced legs
MoneylineBranchPartial(acc, m, confirmed) ==
  The({IF Truthy(legs.home_p) /\ Truthy(legs.away_p)
       THEN [acc EXCEPT !.markets_out = Append(WithoutBlock(acc.markets_out, "ML"), MLBlock(legs)),
                        !.ml_done = TRUE]
       ELSE acc : legs \in {MoneylineLegs(m.selections)}})

\* the moneyline branch of the market loop; confirmed is is_main_confirmed
MoneylineBranch(acc, m, confirmed) ==
  LET existing_ml == HasBlock(acc.markets_out, "ML")
  IN The({IF Truthy(legs.home_p) /\ Truthy(legs.draw_p) /\ Truthy(legs.away_p)
             /\ (confirmed \/ ~existing_ml)
          THEN [acc EXCEPT
                  !.markets_out =
                     Append(IF existing_ml THEN WithoutBlock(acc.markets_out, "ML")
                            ELSE acc.markets_out,
                            MLBlock(legs)),
                  !.ml_done = TRUE]
          ELSE acc : legs \in {MoneylineLegs(m.selections)}})

\* points of a Totals selection: "," repaired, then float(); ok = FALSE is `continue`
TotalsPoints(points) ==
  CASE points.t = "str" -> FloatOfStr(ReplaceChar(points.s, ",", "."))
    [] points.t \in {"int", "float"} -> [ok |-> TRUE, v |-> Milli(points)]
    [] OTHER -> [ok |-> FALSE, v |-> 0]

\* points of a Handicap selection: "," and the unicode minus repaired
HandicapPoints(points) ==
  CASE points.t = "str" ->
         FloatOfStr(ReplaceChar(ReplaceChar(points.s, ",", "."), UnicodeMinus, "-"))
    [] points.t \in {"int", "float"} -> [ok |-> TRUE, v |-> Milli(points)]
    [] OTHER -> [ok |-> FALSE, v |-> 0]

HasKey(lines, k) == \E i \in 1..Len(lines) : lines[i].hdp = k

KeyIndex(lines, k) == CHOOSE i \in 1..Len(lines) : lines[i].hdp = k

\* totals_lines.setdefault(points, {"hdp": points, "over": None, "under": None})
SetDefaultTotals(lines, k) ==
  IF HasKey(lines, k) THEN lines
  ELSE Append(lines, [hdp |-> k, over |-> PyNone, under |-> PyNone])

\* the mutant of TotalsSelection: a price that does not parse drops the lines collected
TotalsSelectionAborts(totals_lines, s) ==
  LET ou == Lower(StrOrEmpty(PyOr(s.outcomeType, s.name)))
      points == TotalsPoints(s.points)
      price == SelectionPrice(s)
      lines == SetDefaultTotals(totals_lines, points.v)
      i == KeyIndex(lines, points.v)
  IN IF ~points.ok THEN totals_lines
     ELSE IF ~Truthy(price) THEN <<>>
     ELSE IF Contains(ou, S_over) THEN [lines EXCEPT ![i].over = price]
     ELSE IF Contains(ou, S_under) THEN [lines EXCEPT ![i].under = price]
     ELSE lines

\* one Totals selection
TotalsSelection(totals_lines, s) ==
  LET ou == Lower(StrOrEmpty(PyOr(s.outcomeType, s.name)))
      points == TotalsPoints(s.points)
      price == SelectionPrice(s)
      lines == SetDefaultTotals(totals_lines, points.v)
      i == KeyIndex(lines, points.v)
  IN IF ~points.ok \/ ~Truthy(price) THEN totals_lines
     ELSE IF Contains(ou, S_over) THEN [lines EXCEPT ![i].over = price]
     ELSE IF Contains(ou, S_under) THEN [lines EXCEPT ![i].under = price]
     ELSE lines

\* the selection loop of the Totals branch
RECURSIVE TotalsBranch(_, _)
TotalsBranch(totals_lines, selections) ==
  IF selections = <<>> THEN totals_lines
  ELSE The({TotalsSelection(before, selections[Len(selections)]) :
              before \in {TotalsBranch(totals_lines,
                                       SubSeq(selections, 1, Len(selections) - 1))}})

\* the selection loop of the Asian-handicap branch
RECURSIVE HandicapLegs(_)
HandicapLegs(selections) ==
  IF selections = <<>>
  THEN [home_pts |-> PyNone, home_price |-> PyNone, away_pts |-> PyNone, away_price |-> PyNone]
  ELSE LET before == HandicapLegs(SubSeq(selections, 1, Len(selections) - 1))
           s == selections[Len(selections)]
           outcome == Lower(StrOrEmpty(s.outcomeType))
           points == HandicapPoints(s.points)
           price == SelectionPrice(s)
       IN IF ~points.ok \/ ~Truthy(price) THEN before
          ELSE IF outcome = S_home
               THEN [before EXCEPT !.home_pts = PyFloat(points.v), !.home_price = price]
          ELSE IF outcome = S_away
               THEN [before EXCEPT !.away_pts = PyFloat(points.v), !.away_price = price]
          ELSE before

\* handicap_lines[float(home_pts)] = {...}: replace in place, or insert last
HandicapBranch(handicap_lines, selections) ==
  The({LET line == [hdp |-> legs.home_pts.v, home |-> legs.home_price,
                    away |-> legs.away_price]
       IN IF legs.home_pts.t # "none" /\ legs.away_pts.t # "none"
             /\ Truthy(legs.home_price) /\ Truthy(legs.away_price)
          THEN IF HasKey(handicap_lines, line.hdp)
               THEN [handicap_lines EXCEPT ![KeyIndex(handicap_lines, line.hdp)] = line]
               ELSE Append(handicap_lines, line)
          ELSE handicap_lines : legs \in {HandicapLegs(selections)}})

\* the branches of one iteration, name and mtid being the market's
MarketBranches(acc, m, name, mtid) ==
  IF ~acc.ml_done /\ is_1x2_main(name, mtid)
  THEN MoneylineBranch(acc, m, is_main_confirmed(name, mtid))
  ELSE IF name = S_ft_ou \/ mtid = S_ou0
       THEN [acc EXCEPT !.totals_lines = TotalsBranch(acc.totals_lines, m.selections)]
  ELSE IF name = S_ft_asian_handicap \/ mtid = S_hc0
       THEN [acc EXCEPT !.handicap_lines = HandicapBranch(acc.handicap_lines, m.selections)]
  ELSE acc

\* one iteration of `for m in all_markets`
ProcessMarket(acc, m) ==
  The({MarketBranches(acc, m, name, mtid) :
         name \in {MarketName(m)}, mtid \in {MarketTypeId(m)}})

RECURSIVE MarketLoop(_)
MarketLoop(all_markets) ==
  IF all_markets = <<>>
  THEN [markets_out |-> <<>>, ml_done |-> FALSE, totals_lines |-> <<>>, handicap_lines |-> <<>>]
  ELSE The({ProcessMarket(acc, all_markets[Len(all_markets)]) :
              acc \in {MarketLoop(SubSeq(all_markets, 1, Len(all_markets) - 1))}})

\* the mutant of SortByHdp: the lines stay in insertion order
SortByHdpSkipped(lines) == lines

\* list.sort(key=lambda x: x["hdp"]): a stable insertion sort
\* x put after the entries of the sorted list that do not exceed it
InsertByHdp(sorted, x) ==
  LET n == Cardinality({i \in 1..Len(sorted) : sorted[i].hdp <= x.hdp})
  IN SubSeq(sorted, 1, n) \o <<x>> \o SubSeq(sorted, n + 1, Len(sorted))

RECURSIVE SortByHdp(_)
SortByHdp(lines) ==
  IF lines = <<>> THEN <<>>
  ELSE The({InsertByHdp(sorted, lines[Len(lines)]) :
              sorted \in {SortByHdp(SubSeq(lines, 1, Len(lines) - 1))}})

\* the mutant of EmitCollected: the Handicap block is appended before the Totals block
EmitCollectedSwapped(acc) ==
  LET totals_out == SelectSeq(acc.totals_lines, LAMBDA v : Truthy(v.over) /\ Truthy(v.under))
      handicap == IF acc.handicap_lines # <<>>
                  THEN <<[name |-> "Handicap", updatedAt |-> "now_iso",
                          odds |-> SortByHdp(acc.handicap_lines)]>>
                  ELSE <<>>
      totals == IF totals_out # <<>>
                THEN <<[name |-> "Totals", updatedAt |-> "now_iso",
                        odds |-> SortByHdp(totals_out)]>>
                ELSE <<>>
  IN acc.markets_out \o handicap \o totals

\* "Emit collected markets"
EmitCollected(acc) ==
  LET totals_out == SelectSeq(acc.totals_lines, LAMBDA v : Truthy(v.over) /\ Truthy(v.under))
      totals == IF totals_out # <<>>
                THEN <<[name |-> "Totals", updatedAt |-> "now_iso",
                        odds |-> SortByHdp(totals_out)]>>
                ELSE <<>>
      handicap == IF acc.handicap_lines # <<>>
                  THEN <<[name |-> "Handicap", updatedAt |-> "now_iso",
                          odds |-> SortByHdp(acc.handicap_lines)]>>
                  ELSE <<>>
  IN acc.markets_out \o totals \o handicap

\* all_markets = event_node.get("markets") or []
extract_markets_from_api(event_node) ==
  The({EmitCollected(acc) : acc \in {MarketLoop(event_node.markets)}})

(***************************************************************************)
(* The raw markets fed to extract_markets_from_api                         *)
(***************************************************************************)
Market(name, mtid, selections) ==
  [name |-> name, marketTypeId |-> mtid, selections |-> selections]

\* a selection that carries outcomeType, points and trueOdds only
Sel(outcome, points, odds) ==
  [outcomeType |-> PyStr(outcome), name |-> PyNone, points |-> points,
   trueOdds |-> odds, displayDecimal |-> PyNone]

\* a selection named by "name", priced by displayOdds.Decimal (trueOdds is 0)
SelByName(name, points, decimal) ==
  [outcomeType |-> PyNone, name |-> PyStr(name), points |-> points,
   trueOdds |-> PyInt(0), displayDecimal |-> decimal]

N_FT_1X2 == PyStr(<<"F", "T", " ", "1", "X", "2">>)
N_1X2 == PyStr(<<"1", "X", "2">>)
N_Double_Chance == PyStr(<<"D", "o", "u", "b", "l", "e", " ", "C", "h", "a", "n", "c", "e">>)
N_FT_OU == PyStr(<<"F", "T", " ", "O", "/", "U">>)
N_FT_Asian_Handicap ==
  PyStr(<<"F", "T", " ", "A", "s", "i", "a", "n", " ", "H", "a", "n", "d", "i", "c", "a", "p">>)
N_Corners == PyStr(<<"C", "o", "r", "n", "e", "r", "s">>)
T_ML0 == PyStr(<<"M", "L", "0">>)
T_ML1 == PyStr(<<"M", "L", "1">>)
T_OU0 == PyStr(<<"O", "U", "0">>)
T_HC0 == PyStr(<<"H", "C", "0">>)

P_1c90 == PyStr(<<"1", ",", "9", "0">>)
P_3d40 == PyStr(<<"3", ".", "4", "0">>)
P_4d10 == PyFloat(4100)
P_1d85 == PyFloat(1850)
P_1d95 == PyFloat(1950)
P_2 == PyInt(2)
P_abc == PyStr(<<"a", "b", "c">>)
P_zero == PyStr(<<"0">>)
P_neg == PyStr(<<"-", "1", ".", "5">>)

\* home, draw and away all priced
LegsA == <<Sel(S_home, PyNone, P_1c90), Sel(<<"T", "i", "e">>, PyNone, P_3d40),
           Sel(S_away, PyNone, P_4d10)>>
LegsB == <<Sel(S_away, PyNone, P_1d85), Sel(S_draw, PyNone, P_2),
           Sel(<<"H", "o", "m", "e">>, PyNone, P_1d95)>>
\* no draw selection
LegsNoDraw == <<Sel(S_home, PyNone, P_1c90), Sel(S_away, PyNone, P_4d10)>>
\* a draw selection whose price does not parse
LegsBadDraw == <<Sel(S_home, PyNone, P_1c90), Sel(S_draw, PyNone, P_abc),
                 Sel(S_away, PyNone, P_4d10)>>

Pt(chars) == PyStr(chars)

\* line 2.5, both legs
OU_25 == <<Sel(<<"O", "v", "e", "r">>, Pt(<<"2", ".", "5">>), P_1d85),
           Sel(<<"U", "n", "d", "e", "r">>, PyFloat(2500), P_1d95)>>
\* line 1.5, both legs, under first, named by "name" and priced by displayOdds
OU_15 == <<SelByName(<<"U", "n", "d", "e", "r">>, Pt(<<"1", ",", "5">>), P_3d40),
           Sel(S_over, PyFloat(1500), P_1c90)>>
\* line 3.5 with an over leg only, line 2.5 with an under leg only
OU_OneLeg == <<Sel(S_over, PyFloat(3500), P_1d85), Sel(S_under, PyFloat(2500), P_4d10)>>
\* line 0.5 whose prices parse to 0 and to -1.5
OU_NonPositive == <<Sel(S_over, PyFloat(500), P_zero), Sel(S_under, PyFloat(500), P_neg)>>
\* points or price that do not parse, beside a good over leg of line 3.5
OU_Unparseable == <<Sel(S_over, Pt(<<"x">>), P_1d85), Sel(S_under, PyFloat(3500), P_abc),
                    Sel(S_over, Pt(<<"3", ".", "5">>), P_1d95), Sel(S_under, PyNone, P_1d95)>>

\* home -0.5 (unicode minus), away +0.5
AH_m05 == <<Sel(S_home, Pt(<<UnicodeMinus, "0", ".", "5">>), P_1d85),
            Sel(S_away, Pt(<<"+", "0", ",", "5">>), P_1d95)>>
\* home -1.5, away 1.5
AH_m15 == <<Sel(S_away, PyFloat(1500), P_1c90), Sel(S_home, PyFloat(-1500), P_3d40)>>
\* two lines in one market: home -1.5 / away 1.5, then home 0.5 / away -0.5
AH_TwoLines == <<Sel(S_home, PyFloat(-1500), P_1d85), Sel(S_away, PyFloat(1500), P_1d95),
                 Sel(S_home, PyFloat(500), P_4d10), Sel(S_away, Pt(<<"-", "0", ".", "5">>), P_1c90)>>
\* a home leg only; the away price does not parse
AH_OneLeg == <<Sel(S_home, PyInt(-1), P_1d85), Sel(S_away, PyInt(1), P_abc)>>
\* line -2 whose prices parse to 0 and to -1.5
AH_NonPositive == <<Sel(S_home, PyInt(-2), P_zero), Sel(S_away, PyInt(2), P_neg)>>

MoneylineMarkets ==
  {Market(N_FT_1X2, PyNone, l) : l \in {LegsA, LegsNoDraw, LegsBadDraw}}
  \cup {Market(PyNone, T_ML0, LegsB),
        Market(N_1X2, T_ML1, LegsB),
        Market(N_Double_Chance, T_ML0, LegsA),
        Market(N_FT_OU, T_ML0, OU_25)}

TotalsMarkets ==
  {Market(N_FT_OU, T_OU0, l) : l \in {OU_25, OU_OneLeg, OU_NonPositive, OU_Unparseable}}
  \cup {Market(PyNone, T_OU0, OU_15)}

HandicapMarkets ==
  {Market(N_FT_Asian_Handicap, PyNone, l) : l \in {AH_m05, AH_TwoLines, AH_OneLeg, AH_NonPositive}}
  \cup {Market(PyNone, T_HC0, AH_m15)}

OtherMarkets == {Market(N_Corners, PyNone, OU_25)}

MarketSet == MoneylineMarkets \cup TotalsMarkets \cup HandicapMarkets \cup OtherMarkets

MaxMarkets == 3

SeqsUpTo(S, n) == UNION {[1..k -> S] : k \in 0..n}

(***************************************************************************)
(* build_item_skeleton_from_api                                            *)
(*                                                                         *)
(* A raw fixture is [eventId, homeTeamName, awayTeamName, eventTime,       *)
(* markets].  Of the Fixture Record the model keeps id, home, away, date,  *)
(* bookmakers and status; sport, league and urls are not modelled.         *)
(***************************************************************************)
TwoDigits(n) == <<DigitChars[(n \div 10) + 1], DigitChars[(n % 10) + 1]>>

MsPerDay == 86400000

\* datetime.fromtimestamp(ms / 1000.0, tz=utc).isoformat().replace("+00:00", "Z"),
\* for a timestamp of January 1970
IsoFormatUtc(ms) ==
  LET day == (ms \div MsPerDay) + 1
      rest == ms % MsPerDay
      hh == rest \div 3600000
      mm == (rest % 3600000) \div 60000
      ss == (rest % 60000) \div 1000
      milli == rest % 1000
  IN <<"1", "9", "7", "0", "-", "0", "1", "-">> \o TwoDigits(day) \o <<"T">>
     \o TwoDigits(hh) \o <<":">> \o TwoDigits(mm) \o <<":">> \o TwoDigits(ss)
     \o (IF milli = 0 THEN <<>>
         ELSE <<".">> \o TwoDigits(milli \div 10) \o <<DigitChars[(milli % 10) + 1]>>
              \o <<"0", "0", "0">>)
     \o <<"Z">>

\* date_iso of lines 92-101: None unless eventTime is a number or a string of digits
date_iso_of(event_time) ==
  LET digits == event_time.t = "str" /\ event_time.s # <<>>
                /\ \A i \in 1..Len(event_time.s) : IsDigit(event_time.s[i])
      as_int == IF digits THEN PyInt(IntOfDigits(event_time.s)) ELSE event_time
  IN IF as_int.t \in {"int", "float"}
     THEN PyStr(IsoFormatUtc(IF as_int.t = "int" THEN as_int.v ELSE as_int.v \div 1000))
     ELSE PyNone

\* int(hashlib.sha256(key.encode("utf-8")).hexdigest()[:10], 16), as its decimal numeral,
\* tabulated for the keys the fixtures of the model produce
Sha256Prefix(key) ==
  CASE key = <<"1", "0", "1">> -> "98183842441"
    [] key = <<"1", "0", "2">> -> "238426205989"
    [] key = <<"A", "_", "_", "B", "_", "_", "1", "9", "7", "0", "-", "0", "1", "-", "0", "2",
               "T", "0", "0", ":", "0", "0", ":", "0", "0", "Z">> -> "719007954937"
    [] key = <<"A", "_", "_", "B", "_", "_">> -> "12038745926"
    [] key = <<"B", "_", "_", "A", "_", "_", "1", "9", "7", "0", "-", "0", "1", "-", "0", "2",
               "T", "0", "0", ":", "0", "0", ":", "0", "0", "Z">> -> "277285161432"
    [] key = <<"B", "_", "_", "A", "_", "_">> -> "295409588528"
    [] key = <<"_", "_", "_", "_">> -> "827428491476"

\* compute_match_id
compute_match_id(home, away, date_iso) ==
  Sha256Prefix(home \o <<"_", "_">> \o away \o <<"_", "_">> \o StrOrEmpty(date_iso))

\* the mutant of build_item_skeleton_from_api: the id is always derived from home, away, date
build_item_skeleton_ignores_event_id(event_node) ==
  LET home == StrOrEmpty(event_node.homeTeamName)
      away == StrOrEmpty(event_node.awayTeamName)
      date_iso == date_iso_of(event_node.eventTime)
  IN [id |-> compute_match_id(home, away, date_iso),
      home |-> home,
      away |-> away,
      date |-> StrOrEmpty(date_iso),
      bookmakers |-> <<>>,
      status |-> "pending"]

\* build_item_skeleton_from_api
build_item_skeleton_from_api(event_node) ==
  LET home == StrOrEmpty(event_node.homeTeamName)
      away == StrOrEmpty(event_node.awayTeamName)
      date_iso == date_iso_of(event_node.eventTime)
      event_id_str == StrOrEmpty(event_node.eventId)
  IN [id |-> IF event_id_str # <<>> THEN Sha256Prefix(event_id_str)
             ELSE compute_match_id(home, away, date_iso),
      home |-> home,
      away |-> away,
      date |-> StrOrEmpty(date_iso),
      bookmakers |-> <<>>,
      status |-> "pending"]

(***************************************************************************)
(* The fixtures and the pages the upstream API serves                      *)
(***************************************************************************)
Event(id, home, away, time, markets) ==
  [eventId |-> id, homeTeamName |-> PyStr(home), awayTeamName |-> PyStr(away),
   eventTime |-> time, markets |-> markets]

KickOff == <<"8", "6", "4", "0", "0", "0", "0", "0">>

\* eventId "101", a moneyline
Ev101 == Event(PyStr(<<"1", "0", "1">>), <<"A">>, <<"B">>, PyInt(MsPerDay),
               <<Market(N_FT_1X2, PyNone, LegsA)>>)
\* eventId 102 (a number), no market that yields a block
Ev102 == Event(PyInt(102), <<"B">>, <<"A">>, PyStr(KickOff), <<Market(N_Corners, PyNone, OU_25)>>)
\* eventId "101" again, in another payload
Ev101b == Event(PyStr(<<"1", "0", "1">>), <<"B">>, <<"A">>, PyNone, <<>>)
\* line 2.5 with both legs, then selections whose points or price do not parse
OU_Mixed == OU_25 \o OU_Unparseable
\* home -0.5 / away +0.5 between a home leg whose points do not parse and an away leg
\* whose price does not parse
AH_Mixed == <<Sel(S_home, Pt(<<"x">>), P_4d10)>> \o AH_m05 \o <<Sel(S_away, PyInt(1), P_abc)>>

\* no eventId; Totals and Asian-handicap markets with selections that do not parse
EvNoId == Event(PyNone, <<"A">>, <<"B">>, PyStr(KickOff),
                <<Market(N_FT_OU, T_OU0, OU_Mixed), Market(N_FT_Asian_Handicap, PyNone, AH_Mixed)>>)
\* no eventId, the same home, away and date as EvNoId, other markets
EvNoIdb == Event(PyStr(<<>>), <<"A">>, <<"B">>, PyInt(MsPerDay), <<>>)

\* the non-empty item lists a page may carry
Pages == {<<Ev101>>, <<Ev102, Ev101>>, <<EvNoId>>, <<Ev101b, EvNoIdb>>}

\* data.totalPages and data.page as the server reports them (None: absent)
TotalPagesValues == {PyNone, PyInt(2)}
PageValues == {PyNone, PyInt(1)}

\* HTTP statuses other than 200, and envelopes whose code is not "200"
BadStatuses == {403, 500}
BadEnvelopeCodes == {PyNone, PyInt(401), PyStr(<<"4", "0", "1">>)}
OkEnvelopeCode == PyInt(200)

\* hours_ahead and page_num_start of a run
HoursAhead == {1, 48}
StartPages == {1, 2}

NowMs == 1000

MaxRequests == 3

(***************************************************************************)
(* State                                                                   *)
(***************************************************************************)
VARIABLES
  event_node,   \* the raw fixture handed to extract_markets_from_api
  markets_ret,  \* what extract_markets_from_api returned
  ncall,        \* "call" before the call, "returned" after it
  pc,           \* scrape_api_only: "fetch" (about to post a page request),
                \* "save" (window loop left), "returned", "raised"
  window_ms, page_num_start,
  start_ms, end_ms, window_idx, page, got_any_in_window,
  results, seen_event_ids,
  error,        \* the exception that left scrape_api_only, "" if none
  written,      \* the sequences handed to json.dump, in order
  requests,     \* the page requests posted so far, each with its response
                \* (history: the code keeps no such log)
  built_from    \* the ev_id each entry of results was built from (history)

nvars == <<event_node, markets_ret, ncall>>

svars == <<pc, window_ms, page_num_start, start_ms, end_ms, window_idx, page,
           got_any_in_window, results, seen_event_ids, error, written, requests,
           built_from>>

vars == <<nvars, svars>>

(***************************************************************************)
(* extract_markets_from_api applied to one raw fixture                     *)
(***************************************************************************)
ScraperIdle ==
  /\ pc = "idle"
  /\ window_ms = 0 /\ page_num_start = 0 /\ start_ms = 0 /\ end_ms = 0
  /\ window_idx = 0 /\ page = 0 /\ got_any_in_window = FALSE
  /\ results = <<>> /\ seen_event_ids = {} /\ error = "" /\ written = <<>>
  /\ requests = <<>> /\ built_from = <<>>

NormalizerInit ==
  /\ event_node \in {[markets |-> ms] : ms \in SeqsUpTo(MarketSet, MaxMarkets)}
  /\ markets_ret = <<>>
  /\ ncall = "call"
  /\ ScraperIdle

ExtractMarkets ==
  /\ ncall = "call"
  /\ markets_ret' = extract_markets_from_api(event_node)
  /\ ncall' = "returned"
  /\ UNCHANGED <<event_node, svars>>

NormalizerNext == ExtractMarkets

SpecMarkets == NormalizerInit /\ [][NormalizerNext]_vars

(***************************************************************************)
(* scrape_api_only                                                         *)
(***************************************************************************)
NormalizerIdle ==
  /\ event_node = [markets |-> <<>>] /\ markets_ret = <<>> /\ ncall = "idle"

Init ==
  /\ NormalizerIdle
  /\ pc = "fetch"
  /\ \E hours_ahead \in HoursAhead : window_ms = hours_ahead * 3600 * 1000
  /\ page_num_start \in StartPages
  /\ start_ms = NowMs
  /\ end_ms = start_ms + window_ms
  /\ window_idx = 1
  /\ page = page_num_start
  /\ got_any_in_window = FALSE
  /\ results = <<>> /\ seen_event_ids = {} /\ built_from = <<>>
  /\ error = "" /\ written = <<>> /\ requests = <<>>

\* ev_id = str(ev.get("eventId") or "")
EvId(ev) == StrOrEmpty(ev.eventId)

\* the mutant of IsDuplicate: nothing is ever a duplicate
IsDuplicateNever(ev_id, seen) == FALSE

\* `if ev_id and ev_id in seen_event_ids: continue`
IsDuplicate(ev_id, seen) == ev_id # <<>> /\ ev_id \in seen

\* the mutant of MarksWindow: a duplicate marks the window too
MarksWindowAlways(duplicate) == TRUE

\* got_any_in_window is set only past the `continue` of a duplicate
MarksWindow(duplicate) == ~duplicate

\* item = build_item_skeleton_from_api(ev), with its markets when there are any
FixtureRecord(ev) ==
  LET item == build_item_skeleton_from_api(ev)
  IN The({IF markets # <<>> THEN [item EXCEPT !.bookmakers = markets] ELSE item :
            markets \in {extract_markets_from_api(ev)}})

\* the mutant of CollectItem: a fixture without a market block is not appended
CollectItemSkipsEmpty(c, ev) ==
  LET ev_id == EvId(ev)
      duplicate == IsDuplicate(ev_id, c.seen_event_ids)
      kept == ~duplicate /\ extract_markets_from_api(ev) # <<>>
  IN [results |-> IF kept THEN Append(c.results, FixtureRecord(ev)) ELSE c.results,
      seen_event_ids |-> IF ~duplicate /\ ev_id # <<>>
                         THEN c.seen_event_ids \cup {ev_id}
                         ELSE c.seen_event_ids,
      got_any_in_window |-> c.got_any_in_window \/ MarksWindow(duplicate),
      built_from |-> IF kept THEN Append(c.built_from, ev_id) ELSE c.built_from]

\* one iteration of `for ev in items`:
\* c is [results, seen_event_ids, got_any_in_window, built_from]
CollectItem(c, ev) ==
  LET ev_id == EvId(ev)
      duplicate == IsDuplicate(ev_id, c.seen_event_ids)
  IN [results |-> IF duplicate THEN c.results ELSE Append(c.results, FixtureRecord(ev)),
      seen_event_ids |-> IF ~duplicate /\ ev_id # <<>>
                         THEN c.seen_event_ids \cup {ev_id}
                         ELSE c.seen_event_ids,
      got_any_in_window |-> c.got_any_in_window \/ MarksWindow(duplicate),
      built_from |-> IF duplicate THEN c.built_from ELSE Append(c.built_from, ev_id)]

RECURSIVE CollectItems(_, _)
CollectItems(c, items) ==
  IF items = <<>> THEN c
  ELSE The({CollectItem(before, items[Len(items)]) :
              before \in {CollectItems(c, SubSeq(items, 1, Len(items) - 1))}})

\* the payload of the request about to be posted, with the response it got:
\* its outcome, its items and the totalPages and page fields of its data
Request(outcome, items, totalPages, pageField) ==
  [window_idx |-> window_idx, startTime |-> start_ms, endTime |-> end_ms,
   pageNum |-> page, outcome |-> outcome, ev_ids |-> [i \in 1..Len(items) |-> EvId(items[i])],
   items |-> items, totalPages |-> totalPages, page |-> pageField]

CanRequest == pc = "fetch" /\ Len(requests) < MaxRequests

\* the mutant of Raise: the failure is logged and the same request is posted again
RaiseSwallowed(outcome) ==
  /\ CanRequest
  /\ requests' = Append(requests, Request(outcome, <<>>, PyNone, PyNone))
  /\ UNCHANGED <<nvars, pc, error, window_ms, page_num_start, start_ms, end_ms, window_idx,
                 page, got_any_in_window, results, seen_event_ids, written, built_from>>

\* the mutant of Raise: what was collected is written before the exception leaves
RaiseAfterWriting(outcome) ==
  /\ CanRequest
  /\ requests' = Append(requests, Request(outcome, <<>>, PyNone, PyNone))
  /\ pc' = "raised"
  /\ error' = outcome
  /\ written' = Append(written, results)
  /\ UNCHANGED <<nvars, window_ms, page_num_start, start_ms, end_ms, window_idx, page,
                 got_any_in_window, results, seen_event_ids, built_from>>

\* an exception leaves scrape_api_only: nothing is written, nothing more is requested
Raise(outcome) ==
  /\ CanRequest
  /\ requests' = Append(requests, Request(outcome, <<>>, PyNone, PyNone))
  /\ pc' = "raised"
  /\ error' = outcome
  /\ UNCHANGED <<nvars, window_ms, page_num_start, start_ms, end_ms, window_idx, page,
                 got_any_in_window, results, seen_event_ids, written, built_from>>

\* session.post raises
RequestError == Raise("transport")

\* resp.status_code != 200
StatusNot200 == \E status \in BadStatuses : status # 200 /\ Raise("status")

\* resp.json() raises
BodyNotJson == Raise("json")

\* the envelope is no dict, or str(data.get("code")) != "200"
EnvelopeOk(code) == StrOf(code) = <<"2", "0", "0">>

EnvelopeError == \E code \in BadEnvelopeCodes : ~EnvelopeOk(code) /\ Raise("envelope")

\* the mutant of WindowEnd: the run goes on to the next window whatever the window held
WindowEndAlwaysAdvance(got_any) ==
  /\ pc' = "fetch"
  /\ start_ms' = end_ms + 1
  /\ end_ms' = (end_ms + 1) + window_ms
  /\ window_idx' = window_idx + 1
  /\ page' = page_num_start
  /\ got_any_in_window' = FALSE

\* the mutant of WindowEnd: the next window starts at the previous endTime
WindowEndNoStep(got_any) ==
  IF ~got_any
  THEN /\ pc' = "save"
       /\ got_any_in_window' = got_any
       /\ UNCHANGED <<start_ms, end_ms, window_idx, page>>
  ELSE /\ pc' = "fetch"
       /\ start_ms' = end_ms
       /\ end_ms' = end_ms + window_ms
       /\ window_idx' = window_idx + 1
       /\ page' = page_num_start
       /\ got_any_in_window' = FALSE

\* the end of the page loop: stop when the window held nothing new, else
\* advance the window and start its page loop
WindowEnd(got_any) ==
  IF ~got_any
  THEN /\ pc' = "save"
       /\ got_any_in_window' = got_any
       /\ UNCHANGED <<start_ms, end_ms, window_idx, page>>
  ELSE /\ pc' = "fetch"
       /\ start_ms' = end_ms + 1
       /\ end_ms' = (end_ms + 1) + window_ms
       /\ window_idx' = window_idx + 1
       /\ page' = page_num_start
       /\ got_any_in_window' = FALSE

\* the response carries no items: the page loop ends
ServeEmpty ==
  /\ EnvelopeOk(OkEnvelopeCode)
  /\ requests' = Append(requests, Request("empty", <<>>, PyNone, PyNone))
  /\ WindowEnd(got_any_in_window)
  /\ UNCHANGED <<nvars, window_ms, page_num_start, results, seen_event_ids, error,
                 written, built_from>>

\* a page with no items
PageEmpty == CanRequest /\ ServeEmpty

\* the mutant of IntOr: the reported value is not read
IntOrFallbackOnly(x, fallback) == fallback

\* int(x or fallback)
IntOr(x, fallback) == IF Truthy(x) THEN x.v ELSE fallback

\* the response carries items: they are collected, then the page loop goes on or ends
ServePage(items, totalPages, pageField) ==
  /\ EnvelopeOk(OkEnvelopeCode)
  /\ \E c \in {CollectItems([results |-> results, seen_event_ids |-> seen_event_ids,
                              got_any_in_window |-> got_any_in_window,
                              built_from |-> built_from], items)} :
       LET total_pages == IntOr(totalPages, 1)
           page_now == IntOr(pageField, page)
       IN /\ requests' = Append(requests, Request("items", items, totalPages, pageField))
          /\ results' = c.results
          /\ seen_event_ids' = c.seen_event_ids
          /\ built_from' = c.built_from
          /\ IF page_now >= total_pages
             THEN WindowEnd(c.got_any_in_window)
             ELSE /\ page' = page + 1
                  /\ got_any_in_window' = c.got_any_in_window
                  /\ pc' = "fetch"
                  /\ UNCHANGED <<start_ms, end_ms, window_idx>>
  /\ UNCHANGED <<nvars, window_ms, page_num_start, error, written>>

\* a page with items
PageItems ==
  /\ CanRequest
  /\ \E items \in Pages, totalPages \in TotalPagesValues, pageField \in PageValues :
       ServePage(items, totalPages, pageField)

\* json.dump(results, f) and return
WriteOutput ==
  /\ pc = "save"
  /\ written' = Append(written, results)
  /\ pc' = "returned"
  /\ UNCHANGED <<nvars, window_ms, page_num_start, start_ms, end_ms, window_idx, page,
                 got_any_in_window, results, seen_event_ids, error, requests, built_from>>

Next ==
  \/ RequestError
  \/ StatusNot200
  \/ BodyNotJson
  \/ EnvelopeError
  \/ PageEmpty
  \/ PageItems
  \/ WriteOutput

Spec == Init /\ [][Next]_vars

(***************************************************************************)
(* scrape_api_only against a well-behaved upstream: a finite catalog of     *)
(* fixtures that all carry an eventId, responses that report totalPages    *)
(* and the requested page number, and no failing request.  The run is      *)
(* sequential code: whenever a step is possible it is taken.               *)
(***************************************************************************)
\* the item lists a page of the catalog may carry: eventIds "101" and 102 only
CatalogPages == {<<Ev101>>, <<Ev102, Ev101>>}

\* the totalPages a response may report
CatalogTotalPages == {PyInt(1), PyInt(2)}

\* no run against the catalog posts more requests than this
MaxCatalogRequests == 6

CatalogCanRequest == pc = "fetch" /\ Len(requests) < MaxCatalogRequests

CatalogPageEmpty == CatalogCanRequest /\ ServeEmpty

CatalogPageItems ==
  /\ CatalogCanRequest
  /\ \E items \in CatalogPages, totalPages \in CatalogTotalPages :
       ServePage(items, totalPages, PyInt(page))

CatalogNext ==
  \/ CatalogPageEmpty
  \/ CatalogPageItems
  \/ WriteOutput

SpecCatalog == Init /\ [][CatalogNext]_vars /\ WF_vars(CatalogNext)

(***************************************************************************)
(* Properties of scrape_api_only (specification Spec)                      *)
(***************************************************************************)
ErrorOutcomes == {"transport", "status", "json", "envelope"}

Stopped == pc \in {"save", "returned"}

\* request i is the first page request of its window
FirstOfWindow(i) == i = 1 \/ requests[i - 1].window_idx # requests[i].window_idx

\* item k of the response to request i carries an eventId no earlier item of the run carried
\* (an item without eventId is never a duplicate)
NewItem(i, k) ==
  LET id == requests[i].ev_ids[k]
  IN \/ id = <<>>
     \/ /\ \A j \in 1..(i - 1) : \A l \in 1..Len(requests[j].ev_ids) : requests[j].ev_ids[l] # id
        /\ \A l \in 1..(k - 1) : requests[i].ev_ids[l] # id

\* window w returned at least one new item
WindowNew(w) ==
  \E i \in 1..Len(requests) :
    requests[i].window_idx = w /\ \E k \in 1..Len(requests[i].ev_ids) : NewItem(i, k)

\* C1: the accumulated results never hold two Fixture Records built from the same
\* non-empty upstream eventId, whatever pages and windows the event came back on.
C1_NoTwoRecordsPerEventId ==
  /\ Len(built_from) = Len(results)
  /\ \A i \in 1..Len(results) :
       built_from[i] # <<>> =>
         /\ results[i].id = Sha256Prefix(built_from[i])
         /\ \A j \in 1..Len(results) : j # i => built_from[j] # built_from[i]

\* an event with an eventId came back in a later window and on the same page as itself
C1_Witness ==
  /\ \E i, j \in 1..Len(requests) :
       /\ requests[i].window_idx < requests[j].window_idx
       /\ \E k \in 1..Len(requests[i].ev_ids), l \in 1..Len(requests[j].ev_ids) :
            requests[i].ev_ids[k] # <<>> /\ requests[i].ev_ids[k] = requests[j].ev_ids[l]
  /\ Len(results) >= 2

\* C2 (as claimed): when the run has returned, no two records built from fixtures
\* without eventId share their derived id.
C2_OneRecordPerDerivedKey ==
  pc = "returned" =>
    \A i, j \in 1..Len(results) :
      (i # j /\ built_from[i] = <<>> /\ built_from[j] = <<>>) => results[i].id # results[j].id

\* C3: a first page of a window that returns zero items is the last request of the
\* run, and the run has left the window loop.
C3_EmptyFirstPageHalts ==
  \A i \in 1..Len(requests) :
    (requests[i].outcome = "empty" /\ FirstOfWindow(i)) =>
      /\ i = Len(requests)
      /\ Stopped

\* the first page of a later window came back empty
C3_Witness ==
  /\ Len(requests) >= 2
  /\ requests[Len(requests)].outcome = "empty"
  /\ FirstOfWindow(Len(requests))
  /\ pc = "returned"

\* C4: the run leaves the window loop exactly when the window just completed returned
\* no new item: it never stops after a window that returned one, and it requests a
\* next window only after a window that returned one.
C4_StopsExactlyOnWindowWithoutNewItems ==
  /\ (Stopped /\ requests # <<>>) => ~WindowNew(requests[Len(requests)].window_idx)
  /\ \A i \in 1..(Len(requests) - 1) :
       requests[i + 1].window_idx # requests[i].window_idx =>
         /\ requests[i + 1].window_idx = requests[i].window_idx + 1
         /\ WindowNew(requests[i].window_idx)
  /\ (pc = "fetch" /\ requests # <<>> /\ window_idx # requests[Len(requests)].window_idx) =>
       /\ window_idx = requests[Len(requests)].window_idx + 1
       /\ page = page_num_start
       /\ WindowNew(requests[Len(requests)].window_idx)
  /\ (pc = "fetch" /\ requests # <<>> /\ window_idx = requests[Len(requests)].window_idx) =>
       requests[Len(requests)].outcome = "items"

\* a window whose only page returned already-seen fixtures ended the run
C4_Witness ==
  /\ Stopped
  /\ Len(requests) >= 2
  /\ requests[Len(requests)].outcome = "items"
  /\ requests[Len(requests)].window_idx > 1

\* C5: a failed page request is the last request of the run; the run has raised that
\* error and has written nothing.
C5_FailedRequestIsFatal ==
  \A i \in 1..Len(requests) :
    requests[i].outcome \in ErrorOutcomes =>
      /\ i = Len(requests)
      /\ pc = "raised"
      /\ error = requests[i].outcome
      /\ written = <<>>

\* a page request failed after a page had been collected
C5_Witness ==
  /\ pc = "raised"
  /\ error = "envelope"
  /\ results # <<>>
  /\ Len(requests) >= 2

\* the key compute_match_id hashes for a record without eventId
DerivedKey(item) == item.home \o <<"_", "_">> \o item.away \o <<"_", "_">> \o item.date

\* C12: the id of every record is the hash of the eventId it was built from when that
\* is non-empty, and the hash of its own home__away__date otherwise; any two records of
\* the run that agree on those inputs have the same id, whatever their other fields and
\* the window or page they came on.
C12_IdIsFunctionOfIdentity ==
  /\ \A i \in 1..Len(results) :
       results[i].id = IF built_from[i] # <<>> THEN Sha256Prefix(built_from[i])
                       ELSE Sha256Prefix(DerivedKey(results[i]))
  /\ \A i, j \in 1..Len(results) :
       \/ built_from[i] # built_from[j]
       \/ built_from[i] = <<>> /\ DerivedKey(results[i]) # DerivedKey(results[j])
       \/ results[i].id = results[j].id

\* two records without eventId agree on home, away and date and differ in their markets,
\* and the record of eventId "101" came from the payload whose home team is B
C12_Witness ==
  /\ \E i, j \in 1..Len(results) :
       /\ i # j /\ built_from[i] = <<>> /\ built_from[j] = <<>>
       /\ DerivedKey(results[i]) = DerivedKey(results[j])
       /\ results[i].bookmakers # results[j].bookmakers
  /\ \E i \in 1..Len(results) :
       built_from[i] = <<"1", "0", "1">> /\ results[i].home = <<"B">>
  /\ requests[1].window_idx # requests[Len(requests)].window_idx

\* the new items of the responses to requests 1..n, in order, each as <<request, item>>
RECURSIVE NewItemsUpTo(_)
NewItemsUpTo(n) ==
  IF n = 0 THEN <<>>
  ELSE NewItemsUpTo(n - 1)
       \o SelectSeq([k \in 1..Len(requests[n].ev_ids) |-> <<n, k>>],
                    LAMBDA ik : NewItem(ik[1], ik[2]))

\* the raw fixture at <<request, item>>
ItemAt(ik) == requests[ik[1]].items[ik[2]]

\* the eventIds returned so far
ReturnedIds ==
  UNION {{requests[i].ev_ids[k] : k \in 1..Len(requests[i].ev_ids)} :
         i \in 1..Len(requests)} \ {<<>>}

\* item k of the last response of the log reqs carries an eventId no earlier item carried
NewInLast(reqs, k) ==
  LET id == reqs[Len(reqs)].ev_ids[k]
  IN \/ id = <<>>
     \/ /\ \A j \in 1..(Len(reqs) - 1) : \A l \in 1..Len(reqs[j].ev_ids) : reqs[j].ev_ids[l] # id
        /\ \A l \in 1..(k - 1) : reqs[Len(reqs)].ev_ids[l] # id

\* the new items of the last response of the log reqs, in order
NewOfLast(reqs) ==
  LET last == reqs[Len(reqs)]
      ks == SelectSeq([k \in 1..Len(last.items) |-> k], LAMBDA k : NewInLast(reqs, k))
  IN [n \in 1..Len(ks) |-> last.items[ks[n]]]

\* a step that posts a request appends one record for each new item of the response, in
\* order: built from that fixture, with status "pending", and with no bookmakers entry
\* when no market block can be extracted from it; no other step changes the records
AppendsNewFixtures ==
  IF Len(requests') = Len(requests) + 1
  THEN \A new \in {NewOfLast(requests')} :
         /\ Len(results') = Len(results) + Len(new)
         /\ SubSeq(results', 1, Len(results)) = results
         /\ \A n \in 1..Len(new) :
              /\ built_from'[Len(results) + n] = EvId(new[n])
              /\ results'[Len(results) + n].home = StrOrEmpty(new[n].homeTeamName)
              /\ results'[Len(results) + n].status = "pending"
              /\ extract_markets_from_api(new[n]) = <<>> =>
                   results'[Len(results) + n].bookmakers = <<>>
  ELSE results' = results

\* C13: the records are, one for one and in order, the fixtures returned with an eventId
\* not seen before (or with none): each is built from that fixture with status
\* "pending", and with no bookmakers entry when no market block can be extracted from
\* it; every returned eventId has exactly one record.
C13_EveryNewFixtureAppendedOnce ==
  /\ [][AppendsNewFixtures]_vars
  /\ [](\A id \in ReturnedIds :
          Cardinality({n \in 1..Len(results) : built_from[n] = id}) = 1)

\* a fixture whose only market is not recognised got a record without blocks, and a
\* fixture seen before was passed over
C13_Witness ==
  /\ \E n \in 1..Len(results) :
       /\ results[n].bookmakers = <<>>
       /\ built_from[n] = <<"1", "0", "2">>
  /\ \E i \in 1..Len(requests) : \E k \in 1..Len(requests[i].ev_ids) : ~NewItem(i, k)
  /\ \E n \in 1..Len(results) : results[n].bookmakers # <<>>

\* page_now and total_pages as the response to request i reports them: the page field,
\* or the requested page when it is absent; totalPages, or 1 when it is absent
ReportedPageNow(i) ==
  IF requests[i].page.t = "int" /\ requests[i].page.v # 0
  THEN requests[i].page.v ELSE requests[i].pageNum

ReportedTotalPages(i) ==
  IF requests[i].totalPages.t = "int" /\ requests[i].totalPages.v # 0
  THEN requests[i].totalPages.v ELSE 1

\* the response to request i has items and reports page_now < total_pages
MorePages(i) ==
  requests[i].outcome = "items" /\ ReportedPageNow(i) < ReportedTotalPages(i)

\* C14: the first request of a window asks for start_page and each further request of
\* the window for the page after the previous one; a request follows in the same window
\* exactly when the response had items and reported page_now < total_pages, and the run
\* then stands at that next page.
C14_PageLoop ==
  /\ \A i \in 1..Len(requests) : FirstOfWindow(i) => requests[i].pageNum = page_num_start
  /\ \A i \in 1..(Len(requests) - 1) :
       IF requests[i + 1].window_idx = requests[i].window_idx
       THEN MorePages(i) /\ requests[i + 1].pageNum = requests[i].pageNum + 1
       ELSE ~MorePages(i)
  /\ requests # <<>> =>
       LET last == requests[Len(requests)]
       IN IF MorePages(Len(requests))
          THEN pc = "fetch" /\ window_idx = last.window_idx /\ page = last.pageNum + 1
          ELSE ~(pc = "fetch" /\ window_idx = last.window_idx)

\* a window took two pages, the second one having items and ending it, and the next
\* window was requested
C14_Witness ==
  /\ Len(requests) = 3
  /\ requests[1].window_idx = requests[2].window_idx
  /\ requests[2].pageNum = requests[1].pageNum + 1
  /\ requests[2].outcome = "items"
  /\ requests[3].window_idx # requests[2].window_idx
  /\ requests[3].pageNum = page_num_start

\* C15: every request has endTime = startTime + window width; two requests of one
\* window carry the same startTime and endTime; the first request of a new window has
\* startTime = the previous endTime + 1 and asks for start_page; the request about to be
\* posted obeys the same.
C15_WindowArithmetic ==
  /\ \A i \in 1..Len(requests) : requests[i].endTime = requests[i].startTime + window_ms
  /\ \A i \in 1..(Len(requests) - 1) :
       IF requests[i + 1].window_idx = requests[i].window_idx
       THEN /\ requests[i + 1].startTime = requests[i].startTime
            /\ requests[i + 1].endTime = requests[i].endTime
       ELSE /\ requests[i + 1].startTime = requests[i].endTime + 1
            /\ requests[i + 1].pageNum = page_num_start
  /\ end_ms = start_ms + window_ms
  /\ requests # <<>> =>
       LET last == requests[Len(requests)]
       IN IF window_idx = last.window_idx
          THEN start_ms = last.startTime /\ end_ms = last.endTime
          ELSE start_ms = last.endTime + 1 /\ page = page_num_start

\* a window of two pages was followed by the first request of the next window, the
\* page number having been reset from start_page + 1
C15_Witness ==
  /\ Len(requests) = 3
  /\ requests[1].window_idx = requests[2].window_idx
  /\ requests[2].pageNum # page_num_start
  /\ requests[3].window_idx = requests[2].window_idx + 1
  /\ requests[3].startTime = requests[2].endTime + 1

\* a field of selection s fails to parse: its price, or the string that holds its points
FieldFails(s) ==
  \/ SelectionPrice(s).t = "none"
  \/ s.points.t = "str" /\ ~HandicapPoints(s.points).ok

\* the markets without the selections a field of which fails to parse
WithoutFailedSelections(markets) ==
  [i \in 1..Len(markets) |->
     [markets[i] EXCEPT !.selections = SelectSeq(markets[i].selections,
                                                  LAMBDA sel : ~FieldFails(sel))]]

\* a step that posts a request appends one record for each new item of the response,
\* whose blocks are those of the fixture with its failing selections taken out
AppendsBlocksOfParsedSelections ==
  Len(requests') = Len(requests) + 1 =>
    \A new \in {NewOfLast(requests')} :
      /\ Len(results') = Len(results) + Len(new)
      /\ \A n \in 1..Len(new) :
           results'[Len(results) + n].bookmakers =
             extract_markets_from_api([markets |-> WithoutFailedSelections(new[n].markets)])

\* C16: every new fixture has its record, whose blocks are those of the fixture with its
\* failing selections taken out (a failing selection removes its own contribution and
\* nothing else), and the run is in its fatal state only after a failed page request.
C16_FieldFailureIsLocal ==
  /\ [][AppendsBlocksOfParsedSelections]_vars
  /\ [](pc = "raised" =>
          /\ requests # <<>>
          /\ requests[Len(requests)].outcome \in ErrorOutcomes)

\* a fixture with failing selections in both its markets got a record with a Totals and
\* a Handicap block, and a later page brought another record
C16_Witness ==
  /\ pc # "raised"
  /\ \E new \in {NewItemsUpTo(Len(requests))} :
       \E n \in 1..(Len(new) - 1) :
         /\ \A i \in 1..Len(ItemAt(new[n]).markets) :
              \E k \in 1..Len(ItemAt(new[n]).markets[i].selections) :
                FieldFails(ItemAt(new[n]).markets[i].selections[k])
         /\ Len(ItemAt(new[n]).markets) = 2
         /\ Len(results[n].bookmakers) = 2
         /\ new[n + 1][1] > new[n][1]

\* C17: nothing is written while pages are fetched, after the window loop is left and
\* before json.dump, or after a fatal error; a run that has returned has written once,
\* the whole result set, its last window having brought no new item.
C17_WrittenOnceAtTheEnd ==
  /\ pc \in {"fetch", "save", "raised"} => written = <<>>
  /\ pc = "returned" =>
       /\ written = <<results>>
       /\ requests # <<>>
       /\ requests[Len(requests)].outcome \notin ErrorOutcomes
       /\ ~WindowNew(requests[Len(requests)].window_idx)
  /\ pc = "raised" => requests[Len(requests)].outcome \in ErrorOutcomes

\* a run over two windows returned, having written its two or more records at once
C17_Witness ==
  /\ pc = "returned"
  /\ Len(written) = 1
  /\ Len(written[1]) >= 2
  /\ requests[Len(requests)].window_idx >= 2

\* the windows requested so far, each as <<startTime, endTime>>
RequestedWindows == {<<requests[i].startTime, requests[i].endTime>> : i \in 1..Len(requests)}

\* the bounds of the requested windows that lie in [first startTime, last endTime):
\* if a millisecond of that span is in no window or in two, so is one of these
WindowBoundaries ==
  {t \in UNION {{w[1], w[2]} : w \in RequestedWindows} :
     requests[1].startTime <= t /\ t < requests[Len(requests)].endTime}

\* C19 (as claimed): every millisecond from the first window's startTime up to the last
\* window's endTime (exclusive) lies in exactly one requested window, each window being
\* the half-open range [startTime, endTime).
C19_WindowsTileHalfOpen ==
  requests # <<>> =>
    \A t \in WindowBoundaries :
      Cardinality({w \in RequestedWindows : w[1] <= t /\ t < w[2]}) = 1

(***************************************************************************)
(* Properties of extract_markets_from_api (specification SpecMarkets)      *)
(***************************************************************************)
Returned == ncall = "returned"

Blocks(block) == {i \in 1..Len(markets_ret) : markets_ret[i].name = block}

\* selection s is a priced leg for one of the outcomes
PricedLeg(s, outcomes) ==
  Lower(StrOrEmpty(s.outcomeType)) \in outcomes /\ SelectionPrice(s).t = "str"

\* market m prices home, draw and away
ThreeLegs(m) ==
  \A outcomes \in {{S_home}, {S_tie, S_draw}, {S_away}} :
    \E k \in 1..Len(m.selections) : PricedLeg(m.selections[k], outcomes)

\* the name "ft 1x2" or the type code "ml0", and not double chance
ConfirmedMoneyline(m) ==
  /\ MarketName(m) = S_ft_1x2 \/ MarketTypeId(m) = S_ml0
  /\ ~Contains(MarketName(m), S_double) /\ ~Contains(MarketName(m), S_chance)

\* a 1X2-shaped entry that matches neither the exact name nor the type code
CandidateMoneyline(m) ==
  /\ Contains(MarketName(m), <<"1", "x", "2">>)
  /\ MarketName(m) # S_ft_1x2 /\ MarketTypeId(m) # S_ml0
  /\ ~Contains(MarketName(m), S_double) /\ ~Contains(MarketName(m), S_chance)

\* the last priced selection of m for one of the outcomes
LastPrice(m, outcomes) ==
  LET ks == {k \in 1..Len(m.selections) : PricedLeg(m.selections[k], outcomes)}
  IN SelectionPrice(m.selections[CHOOSE k \in ks : \A l \in ks : l <= k])

LegsOf(m) ==
  [home |-> LastPrice(m, {S_home}), draw |-> LastPrice(m, {S_tie, S_draw}),
   away |-> LastPrice(m, {S_away})]

FirstConfirmed ==
  LET is == {i \in 1..Len(event_node.markets) :
               ConfirmedMoneyline(event_node.markets[i]) /\ ThreeLegs(event_node.markets[i])}
  IN event_node.markets[CHOOSE i \in is : \A j \in is : i <= j]

\* a candidate moneyline comes before a confirmed one, both with three priced legs
CandidateThenConfirmed ==
  \E i, j \in 1..Len(event_node.markets) :
    /\ i < j
    /\ CandidateMoneyline(event_node.markets[i]) /\ ThreeLegs(event_node.markets[i])
    /\ ConfirmedMoneyline(event_node.markets[j]) /\ ThreeLegs(event_node.markets[j])

\* C7: when a candidate moneyline precedes a confirmed one, both with three priced legs,
\* the output holds exactly one ML block, with the legs of the confirmed market (of the
\* first one, when several are confirmed).
C7_ConfirmedMoneylineWins ==
  (Returned /\ CandidateThenConfirmed) =>
    /\ Cardinality(Blocks("ML")) = 1
    /\ \A b \in Blocks("ML") : markets_ret[b].odds = <<LegsOf(FirstConfirmed)>>

\* the candidate's prices differ from the confirmed market's, which are the output's
C7_Witness ==
  /\ Returned
  /\ Len(event_node.markets) = 2
  /\ CandidateMoneyline(event_node.markets[1]) /\ ThreeLegs(event_node.markets[1])
  /\ ConfirmedMoneyline(event_node.markets[2]) /\ ThreeLegs(event_node.markets[2])
  /\ LegsOf(event_node.markets[1]) # LegsOf(event_node.markets[2])
  /\ Blocks("ML") # {}

BlockRank(block) ==
  CASE block = "ML" -> 1 [] block = "Totals" -> 2 [] block = "Handicap" -> 3 [] OTHER -> 0

\* C8: the output holds only ML, Totals and Handicap blocks, at most one of each, none
\* without an entry, in the relative order ML, Totals, Handicap.
C8_OneBlockPerKindInOrder ==
  Returned =>
    /\ \A i \in 1..Len(markets_ret) :
         /\ BlockRank(markets_ret[i].name) # 0
         /\ markets_ret[i].odds # <<>>
    /\ \A i, j \in 1..Len(markets_ret) :
         i < j => BlockRank(markets_ret[i].name) < BlockRank(markets_ret[j].name)

\* all three blocks are present, the raw markets having come in another order
C8_Witness ==
  /\ Returned
  /\ Len(markets_ret) = 3
  /\ ~ConfirmedMoneyline(event_node.markets[1])

LineBlocks == Blocks("Totals") \cup Blocks("Handicap")

\* the legs of a line of a Totals or a Handicap block
LineLegs(line, block) ==
  IF block = "Totals" THEN <<line.over, line.under>> ELSE <<line.home, line.away>>

\* C9 (as claimed): every Totals and Handicap line of the output has two legs whose
\* price is a number strictly greater than zero.
C9_LinePricesArePositive ==
  Returned =>
    \A b \in LineBlocks : \A k \in 1..Len(markets_ret[b].odds) :
      LET legs == LineLegs(markets_ret[b].odds[k], markets_ret[b].name)
      IN \A n \in 1..2 :
           /\ legs[n].t = "str"
           /\ FloatOfStr(legs[n].s).ok
           /\ FloatOfStr(legs[n].s).v > 0

\* C10: every Totals and Handicap line of the output has both legs priced, and the
\* lines of a block are in strictly ascending order of hdp (so no hdp occurs twice).
C10_LinesCompleteAndAscending ==
  Returned =>
    \A b \in LineBlocks :
      LET odds == markets_ret[b].odds
      IN /\ \A k \in 1..Len(odds) :
              \A n \in 1..2 : LineLegs(odds[k], markets_ret[b].name)[n].t = "str"
         /\ \A k \in 1..(Len(odds) - 1) : odds[k].hdp < odds[k + 1].hdp

\* the lines were collected out of order, one of them with a single leg, and two came out
C10_Witness ==
  /\ Returned
  /\ \E b \in LineBlocks : Len(markets_ret[b].odds) >= 2
  /\ LET acc == MarketLoop(event_node.markets)
     IN /\ \E k \in 1..Len(acc.totals_lines) :
             acc.totals_lines[k].over.t = "none" \/ acc.totals_lines[k].under.t = "none"
        /\ \E k \in 1..(Len(acc.totals_lines) - 1) :
             acc.totals_lines[k].hdp > acc.totals_lines[k + 1].hdp

\* a market the Asian-handicap rule recognises (and neither of the rules tried before it)
RecognisedHandicap(m) ==
  /\ MarketName(m) = S_ft_asian_handicap \/ MarketTypeId(m) = S_hc0
  /\ ~ConfirmedMoneyline(m)
  /\ ~(MarketName(m) = S_ft_ou \/ MarketTypeId(m) = S_ou0)

\* the points at which market m has a priced leg for the outcome
PricedPoints(m, outcome) ==
  {HandicapPoints(m.selections[k].points).v :
     k \in {l \in 1..Len(m.selections) :
              /\ PricedLeg(m.selections[l], {outcome})
              /\ HandicapPoints(m.selections[l].points).ok}}

\* the home handicap points of the input whose home leg and away leg (at the opposite
\* point, in the same market) are both priced
HomeLines ==
  UNION {{p \in PricedPoints(event_node.markets[i], S_home) :
            -p \in PricedPoints(event_node.markets[i], S_away)} :
         i \in {j \in 1..Len(event_node.markets) : RecognisedHandicap(event_node.markets[j])}}

\* the entries of the output's Handicap block at point p, as <<block, entry>>
HandicapEntriesAt(p) ==
  {be \in Blocks("Handicap") \X (1..4) :
     be[2] <= Len(markets_ret[be[1]].odds) /\ markets_ret[be[1]].odds[be[2]].hdp = p}

\* C11 (as claimed): for every home handicap point of the recognised Asian-handicap
\* markets with both legs priced, the Handicap block holds exactly one entry with that
\* hdp, also when one market carries the selections of several lines.
C11_OneEntryPerHomeLine ==
  Returned => \A p \in HomeLines : Cardinality(HandicapEntriesAt(p)) = 1

\* the markets without those that satisfy the predicate
MarketsWithout(markets, Dropped(_)) == SelectSeq(markets, LAMBDA m : ~Dropped(m))

\* the markets without the one at position i
MarketsWithoutAt(markets, i) == SubSeq(markets, 1, i - 1) \o SubSeq(markets, i + 1, Len(markets))

\* the blocks of one kind in an output
BlocksOfKind(out, kind) == SelectSeq(out, LAMBDA b : b.name = kind)

TotalsRule(m) == MarketName(m) = S_ft_ou \/ MarketTypeId(m) = S_ou0

HandicapRule(m) == MarketName(m) = S_ft_asian_handicap \/ MarketTypeId(m) = S_hc0

\* a market none of the three rules matches
Unrecognised(m) == ~ConfirmedMoneyline(m) /\ ~TotalsRule(m) /\ ~HandicapRule(m)

\* C20 (as claimed): taking any one market out of the input changes the blocks of at
\* most one kind; the Totals and Handicap blocks are those of the input without its
\* moneyline-rule markets, wherever these stand; the output is that of the input
\* without its unrecognised markets.
C20_ClassificationIsExclusive ==
  Returned =>
    /\ \A i \in 1..Len(event_node.markets) :
         \A out \in {extract_markets_from_api(
                        [markets |-> MarketsWithoutAt(event_node.markets, i)])} :
           Cardinality({kind \in {"ML", "Totals", "Handicap"} :
                          BlocksOfKind(out, kind) # BlocksOfKind(markets_ret, kind)}) <= 1
    /\ \A out \in {extract_markets_from_api(
                      [markets |-> MarketsWithout(event_node.markets, ConfirmedMoneyline)])} :
         /\ BlocksOfKind(out, "Totals") = BlocksOfKind(markets_ret, "Totals")
         /\ BlocksOfKind(out, "Handicap") = BlocksOfKind(markets_ret, "Handicap")
    /\ markets_ret = extract_markets_from_api(
                       [markets |-> MarketsWithout(event_node.markets, Unrecognised)])

====
